---------------------------- MODULE Spec2Model ----------------------------
(***************************************************************************)
(* Model of photo_organizer.py: collecting media paths, extracting the     *)
(* creation datetime from exiftool metadata, planning the renames          *)
(* (get_rename_dict / format_media_path), executing them (rename), the     *)
(* control flow of main, and the scoped download of exiftool on Windows.   *)
(*                                                                         *)
(* Strings are sequences of one-character strings, so that slicing,        *)
(* lower-casing, character replacement and lexicographic comparison are    *)
(* computed rather than assumed.                                           *)
(***************************************************************************)
EXTENDS Integers, Sequences, FiniteSets, TLC

(***************************************************************************)
(* Characters and strings                                                  *)
(***************************************************************************)

\* The characters used by the model, in increasing code point order.
Ascii ==
    <<" ", "+", "-", ".", "0", "1", "2", "3", "4", "5", "6", "7", "8", "9", ":", "A", "B", "C", "D", "E", "F", "G", "H", "I", "J", "K", "L", "M", "N", "O", "P", "Q", "R", "S", "T", "U", "V", "W", "X", "Y", "Z", "_", "a", "b", "c", "d", "e", "f", "g", "h", "i", "j", "k", "l", "m", "n", "o", "p", "q", "r", "s", "t", "u", "v", "w", "x", "y", "z">>

Ord(c) == CHOOSE i \in 1..Len(Ascii) : Ascii[i] = c

UpperChars == <<"A", "B", "C", "D", "E", "F", "G", "H", "I", "J", "K", "L", "M", "N", "O", "P", "Q", "R", "S", "T", "U", "V", "W", "X", "Y", "Z">>
LowerChars == <<"a", "b", "c", "d", "e", "f", "g", "h", "i", "j", "k", "l", "m", "n", "o", "p", "q", "r", "s", "t", "u", "v", "w", "x", "y", "z">>
DigitChars == <<"0", "1", "2", "3", "4", "5", "6", "7", "8", "9">>

IsDigit(c) == \E i \in 1..Len(DigitChars) : DigitChars[i] = c

DigitVal(c) == (CHOOSE i \in 1..Len(DigitChars) : DigitChars[i] = c) - 1

\* str.lower() on one character
LowerChar(c) ==
    IF \E i \in 1..Len(UpperChars) : UpperChars[i] = c
    THEN LowerChars[CHOOSE i \in 1..Len(UpperChars) : UpperChars[i] = c]
    ELSE c

\* str.lower()
StrLower(s) == [i \in 1..Len(s) |-> LowerChar(s[i])]

\* str.replace(old, new) for single characters
StrReplace(s, old, new) == [i \in 1..Len(s) |-> IF s[i] = old THEN new ELSE s[i]]

\* s < t for Python strings (lexicographic by code point)
RECURSIVE StrLess(_, _)
StrLess(s, t) ==
    IF t = <<>> THEN FALSE
    ELSE IF s = <<>> THEN TRUE
    ELSE IF s[1] # t[1] THEN Ord(s[1]) < Ord(t[1])
    ELSE StrLess(Tail(s), Tail(t))

\* int(s) for a non-empty string of ASCII digits
RECURSIVE IntOf(_)
IntOf(s) ==
    IF s = <<>> THEN 0 ELSE 10 * IntOf(SubSeq(s, 1, Len(s) - 1)) + DigitVal(s[Len(s)])

\* "%0<width>d" for a non-negative integer
RECURSIVE DecStr(_)
DecStr(n) == IF n < 10 THEN <<DigitChars[n + 1]>> ELSE DecStr(n \div 10) \o <<DigitChars[(n % 10) + 1]>>

RECURSIVE ZeroPad(_, _)
ZeroPad(s, width) == IF Len(s) >= width THEN s ELSE ZeroPad(<<"0">> \o s, width)

(***************************************************************************)
(* pathlib.Path: a path is a directory and a file name                     *)
(***************************************************************************)

MkPath(dir, name) == [dir |-> dir, name |-> name]

\* Index of the last "." of the name, 0 when there is none (str.rfind + 1)
RECURSIVE LastDot(_, _)
LastDot(name, i) ==
    IF i = 0 THEN 0 ELSE IF name[i] = "." THEN i ELSE LastDot(name, i - 1)

\* PurePath.suffix
Suffix(p) ==
    LET i == LastDot(p.name, Len(p.name))
    IN  IF 1 < i /\ i < Len(p.name) THEN SubSeq(p.name, i, Len(p.name)) ELSE <<>>

\* PurePath.stem
Stem(p) ==
    LET i == LastDot(p.name, Len(p.name))
    IN  IF 1 < i /\ i < Len(p.name) THEN SubSeq(p.name, 1, i - 1) ELSE p.name

\* PurePath.with_name
WithName(p, name) == [p EXCEPT !.name = name]

\* PurePath.__lt__: the parts are compared in order
PathLess(p, q) ==
    \/ StrLess(p.dir, q.dir)
    \/ p.dir = q.dir /\ StrLess(p.name, q.name)

(***************************************************************************)
(* get_creation_datetime                                                   *)
(***************************************************************************)

\* Mutant of MetadataKeys: the video tag is tried first
MetadataKeysSwapped == <<"QuickTime:CreationDate", "EXIF:DateTimeOriginal">>

\* The two metadata keys, in the order the loop tries them
MetadataKeys == <<"EXIF:DateTimeOriginal", "QuickTime:CreationDate">>

\* Index just after the longest run of ASCII digits of s starting at i (\d+)
RECURSIVE DigitsEnd(_, _)
DigitsEnd(s, i) ==
    IF i <= Len(s) /\ IsDigit(s[i]) THEN DigitsEnd(s, i + 1) ELSE i

\* Tokens of the pattern: "D" is \d+, "S" is [+-], any other token is a literal
DatetimeTokens == <<"D", ":", "D", ":", "D", " ", "D", ":", "D", ":", "D">>
TimezoneTokens == <<"S", "D", ":", "D">>

NoMatch == [ok |-> FALSE, end |-> 0, groups |-> <<>>]

\* Match the tokens toks[k..] against s from index i; the groups are the digit runs
RECURSIVE MatchTokens(_, _, _, _, _)
MatchTokens(s, i, toks, k, groups) ==
    IF k > Len(toks) THEN [ok |-> TRUE, end |-> i, groups |-> groups]
    ELSE IF toks[k] = "D"
    THEN LET e == DigitsEnd(s, i)
         IN  IF e = i THEN NoMatch
             ELSE MatchTokens(s, e, toks, k + 1, Append(groups, SubSeq(s, i, e - 1)))
    ELSE IF toks[k] = "S"
    THEN IF i <= Len(s) /\ s[i] \in {"+", "-"}
         THEN MatchTokens(s, i + 1, toks, k + 1, groups)
         ELSE NoMatch
    ELSE IF i <= Len(s) /\ s[i] = toks[k]
         THEN MatchTokens(s, i + 1, toks, k + 1, groups)
         ELSE NoMatch

\* datetime_pattern.fullmatch(s): the date and time, then an optional timezone
DatetimeFullmatch(s) ==
    LET m == MatchTokens(s, 1, DatetimeTokens, 1, <<>>)
    IN  IF ~m.ok THEN NoMatch
        ELSE IF m.end = Len(s) + 1 THEN m
        ELSE LET z == MatchTokens(s, m.end, TimezoneTokens, 1, <<>>)
             IN  IF z.ok /\ z.end = Len(s) + 1 THEN m ELSE NoMatch

IsLeap(y) == (y % 4 = 0) /\ ((y % 100 # 0) \/ (y % 400 = 0))

DaysInMonth(y, m) ==
    IF m = 2 THEN (IF IsLeap(y) THEN 29 ELSE 28)
    ELSE IF m \in {4, 6, 9, 11} THEN 30 ELSE 31

\* The range checks of the datetime.datetime constructor (ValueError otherwise)
ValidDatetime(y, mo, d, h, mi, s) ==
    /\ y \in 1..9999
    /\ mo \in 1..12
    /\ d \in 1..DaysInMonth(y, mo)
    /\ h \in 0..23
    /\ mi \in 0..59
    /\ s \in 0..59

None == [kind |-> "none"]
ValueError == [kind |-> "error"]

\* Mutant of Datetime: an invalid calendar date is skipped like an unparseable one
DatetimeLenient(y, mo, d, h, mi, s) ==
    IF ValidDatetime(y, mo, d, h, mi, s)
    THEN [kind |-> "datetime", year |-> y, month |-> mo, day |-> d,
          hour |-> h, minute |-> mi, second |-> s]
    ELSE None

Datetime(y, mo, d, h, mi, s) ==
    IF ValidDatetime(y, mo, d, h, mi, s)
    THEN [kind |-> "datetime", year |-> y, month |-> mo, day |-> d,
          hour |-> h, minute |-> mi, second |-> s]
    ELSE ValueError

\* The for/else of get_creation_datetime: the index of the first key present, 0 if none
RECURSIVE FirstKeyFrom(_, _)
FirstKeyFrom(entry, k) ==
    IF k > Len(MetadataKeys) THEN 0
    ELSE IF MetadataKeys[k] \in DOMAIN entry THEN k
    ELSE FirstKeyFrom(entry, k + 1)

FirstKey(entry) == FirstKeyFrom(entry, 1)

\* Return value of get_creation_datetime: None, a datetime, or ValueError raised
get_creation_datetime(entry) ==
    IF FirstKey(entry) = 0 THEN None
    ELSE LET creation_datetime_string == entry[MetadataKeys[FirstKey(entry)]]
             regex_match == DatetimeFullmatch(creation_datetime_string)
         IN  IF ~regex_match.ok THEN None
             ELSE Datetime(IntOf(regex_match.groups[1]), IntOf(regex_match.groups[2]),
                           IntOf(regex_match.groups[3]), IntOf(regex_match.groups[4]),
                           IntOf(regex_match.groups[5]), IntOf(regex_match.groups[6]))

(***************************************************************************)
(* format_media_path                                                       *)
(***************************************************************************)

\* datetime.isoformat(sep): no microseconds and no tzinfo, so no fraction and no offset
IsoFormat(dt, sep) ==
    ZeroPad(DecStr(dt.year), 4) \o <<"-">> \o ZeroPad(DecStr(dt.month), 2) \o <<"-">>
        \o ZeroPad(DecStr(dt.day), 2) \o sep
        \o ZeroPad(DecStr(dt.hour), 2) \o <<":">> \o ZeroPad(DecStr(dt.minute), 2) \o <<":">>
        \o ZeroPad(DecStr(dt.second), 2)

\* The separator between date and time passed to isoformat
DateTimeSep == <<"_">>

\* The formatted datetime part of the stem
FormatDatetime(dt) == StrReplace(IsoFormat(dt, DateTimeSep), ":", "-")

\* Number of characters of the hexadecimal digest kept in the name
HashLen == 8

HashPrefix(digest) == SubSeq(digest, 1, HashLen)

\* Mutant of FormatName: the suffix keeps its case
FormatNameKeepCase(old_media_path, creation_datetime, digest) ==
    FormatDatetime(creation_datetime) \o <<"_">> \o HashPrefix(digest)
        \o Suffix(old_media_path)

\* The name given by format_media_path to a file with this digest
FormatName(old_media_path, creation_datetime, digest) ==
    FormatDatetime(creation_datetime) \o <<"_">> \o HashPrefix(digest)
        \o StrLower(Suffix(old_media_path))

(***************************************************************************)
(* File contents, their exiftool tags and their SHA-256 digests            *)
(***************************************************************************)

\* The file contents of the model. Exiftool reads the tags from the bytes
\* and SHA-256 is a function of the bytes, so both are functions of the content.
Contents == {"A", "B", "D", "N", "U", "X"}

\* The timestamp tags exiftool reports for a content
Tags(content) ==
    CASE content = "A" -> ("EXIF:DateTimeOriginal" :> <<"2", "0", "2", "3", ":", "0", "5", ":", "0", "1", " ", "1", "4", ":", "3", "0", ":", "0", "0">>)
      [] content = "B" -> ("QuickTime:CreationDate" :> <<"2", "0", "2", "3", ":", "0", "5", ":", "0", "1", " ", "1", "4", ":", "3", "0", ":", "0", "0", "+", "0", "2", ":", "0", "0">>)
      [] content = "D" -> ("EXIF:DateTimeOriginal" :> <<"2", "0", "2", "4", ":", "0", "2", ":", "2", "9", " ", "0", "8", ":", "0", "5", ":", "0", "9">>)
      [] content = "N" -> <<>>
      [] content = "U" -> ("EXIF:DateTimeOriginal" :> <<"n", "o", "t", "-", "a", "-", "d", "a", "t", "e">>)
                            @@ ("QuickTime:CreationDate" :> <<"2", "0", "2", "2", ":", "1", "2", ":", "3", "1", " ", "2", "3", ":", "5", "9", ":", "5", "9">>)
      [] content = "X" -> ("EXIF:DateTimeOriginal" :> <<"2", "0", "2", "3", ":", "1", "3", ":", "0", "1", " ", "1", "4", ":", "3", "0", ":", "0", "0">>)

\* hashlib.sha256(bytes).hexdigest(), abbreviated to its first ten characters.
\* "A" and "B" are different contents whose digests agree on the first eight.
Sha256Hex(content) ==
    CASE content = "A" -> <<"a", "1", "b", "2", "c", "3", "d", "4", "e", "5">>
      [] content = "B" -> <<"a", "1", "b", "2", "c", "3", "d", "4", "f", "f">>
      [] content = "D" -> <<"9", "e", "8", "d", "7", "c", "6", "b", "5", "a">>
      [] content = "N" -> <<"0", "1", "2", "3", "4", "5", "6", "7", "8", "9">>
      [] content = "U" -> <<"d", "e", "a", "d", "b", "e", "e", "f", "0", "0">>
      [] content = "X" -> <<"c", "0", "f", "f", "e", "e", "1", "2", "3", "4">>

\* One record of exif_tool_helper.get_metadata for the file at path
MetadataEntry(path, content) == ("SourceFile" :> path) @@ Tags(content)

\* format_media_path: reads the file, hashes it, renames within the directory
format_media_path(files, old_media_path, creation_datetime) ==
    WithName(old_media_path,
             FormatName(old_media_path, creation_datetime,
                        Sha256Hex(files[old_media_path])))

(***************************************************************************)
(* collect_media_paths                                                     *)
(***************************************************************************)

MediaSuffixes == {<<".", "j", "p", "g">>, <<".", "m", "o", "v">>, <<".", "p", "n", "g">>}

\* fnmatch with "*" as the only wildcard
RECURSIVE Fnmatch(_, _)
Fnmatch(pat, s) ==
    IF pat = <<>> THEN s = <<>>
    ELSE IF pat[1] = "*"
    THEN Fnmatch(Tail(pat), s) \/ (s # <<>> /\ Fnmatch(pat, Tail(s)))
    ELSE s # <<>> /\ s[1] = pat[1] /\ Fnmatch(Tail(pat), Tail(s))

\* A glob pattern "<dir>/<name>"; the directory "**" matches every directory.
\* A wildcard does not match a leading dot.
GlobMatches(pattern, p) ==
    /\ pattern.dir = <<"*", "*">> \/ Fnmatch(pattern.dir, p.dir)
    /\ Fnmatch(pattern.name, p.name)
    /\ (p.name # <<>> /\ p.name[1] = ".") => (pattern.name # <<>> /\ pattern.name[1] = ".")

\* The paths glob.glob(pattern, recursive=True) returns, as a set
GlobSet(files, pattern) == {p \in DOMAIN files : GlobMatches(pattern, p)}

\* All orders in which a set can be listed
Orderings(S) ==
    {s \in [1..Cardinality(S) -> S] : \A i, j \in 1..Cardinality(S) : i # j => s[i] # s[j]}

\* sorted(): stable insertion by PurePath.__lt__
RECURSIVE InsertSorted(_, _)
InsertSorted(sortedSeq, p) ==
    IF sortedSeq = <<>> THEN <<p>>
    ELSE IF PathLess(p, Head(sortedSeq)) THEN <<p>> \o sortedSeq
    ELSE <<Head(sortedSeq)>> \o InsertSorted(Tail(sortedSeq), p)

RECURSIVE Sorted(_)
Sorted(s) == IF s = <<>> THEN <<>> ELSE InsertSorted(Sorted(SubSeq(s, 1, Len(s) - 1)), s[Len(s)])

\* The generator expression of collect_media_paths: the media files of one glob result
IsMediaPath(p) == StrLower(Suffix(p)) \in MediaSuffixes

RECURSIVE FilterMedia(_)
FilterMedia(s) ==
    IF s = <<>> THEN <<>>
    ELSE IF IsMediaPath(Head(s)) THEN <<Head(s)>> \o FilterMedia(Tail(s))
    ELSE FilterMedia(Tail(s))

\* Mutant of PatternPaths: the matches are taken in the order glob returned them
PatternPathsUnsorted(globbed) == FilterMedia(globbed)

\* What one pattern contributes to media_paths
PatternPaths(globbed) == Sorted(FilterMedia(globbed))

\* collect_media_paths; globbed[i] is the list glob.glob returned for pattern i
RECURSIVE collect_media_paths(_)
collect_media_paths(globbed) ==
    IF globbed = <<>> THEN <<>>
    ELSE collect_media_paths(SubSeq(globbed, 1, Len(globbed) - 1))
             \o PatternPaths(globbed[Len(globbed)])

\* The lists glob.glob can return for each of the patterns, in any order
RECURSIVE GlobResults(_, _)
GlobResults(files, glob_patterns) ==
    IF glob_patterns = <<>> THEN {<<>>}
    ELSE LET n == Len(glob_patterns)
         IN  {Append(g, o) : g \in GlobResults(files, SubSeq(glob_patterns, 1, n - 1)),
                             o \in Orderings(GlobSet(files, glob_patterns[n]))}

(***************************************************************************)
(* rename: one entry of the mapping                                        *)
(***************************************************************************)

\* Path.is_file() on a file system that holds regular files only
IsFile(files, p) == p \in DOMAIN files

\* Path.unlink()
Unlink(files, p) == [q \in DOMAIN files \ {p} |-> files[q]]

\* Path.rename(new_path), new_path not existing
MoveFile(files, old_path, new_path) ==
    [q \in (DOMAIN files \ {old_path}) \cup {new_path} |->
        IF q = new_path THEN files[old_path] ELSE files[q]]

\* Mutant of RenameEntry: the test is inverted
RenameEntryInverted(files, old_path, new_path) ==
    IF ~IsFile(files, new_path) THEN Unlink(files, old_path)
    ELSE MoveFile(files, old_path, new_path)

\* The body of the loop of rename for one entry
RenameEntry(files, old_path, new_path) ==
    IF IsFile(files, new_path) THEN Unlink(files, old_path)
    ELSE MoveFile(files, old_path, new_path)

(***************************************************************************)
(* The rename dict: a dict in insertion order, as a sequence of pairs      *)
(***************************************************************************)

DictKeys(d) == {d[j][1] : j \in 1..Len(d)}

DictTargets(d) == {d[j][2] : j \in 1..Len(d)}

\* d[key] = value: a new key is appended, an old key keeps its position
DictSet(d, key, value) ==
    IF key \in DictKeys(d)
    THEN [j \in 1..Len(d) |-> IF d[j][1] = key THEN <<key, value>> ELSE d[j]]
    ELSE Append(d, <<key, value>>)

(***************************************************************************)
(* The program: state                                                      *)
(***************************************************************************)

VARIABLES
    fs,               \* the file system: existing path -> content
    fs0,              \* the file system when the current run of main started
    pc,               \* position of the run of main
    arguments,        \* the parsed arguments: glob_patterns, force, dry_run
    old_media_paths,  \* main: the collected paths
    metadata,         \* get_rename_dict: the records returned by exiftool
    idx,              \* get_rename_dict: number of (path, record) pairs processed
    rename_dict,      \* get_rename_dict: the dict being built
    planned,          \* main: get_rename_dict has returned rename_dict
    hashed,           \* paths whose bytes were read and hashed in this run
    answer,           \* what the user typed at the prompt
    done,             \* rename: number of entries processed
    ops,              \* rename: what was done for each entry processed
    outcome,          \* how the run ended
    prev,             \* the last run that executed its plan: its patterns, its files
    call,             \* a single call of a function: its arguments
    ret,              \* a single call of a function: its result
    tool              \* the scoped acquisition of exiftool in get_rename_dict

mainVars == <<fs, fs0, pc, arguments, old_media_paths, metadata, idx, rename_dict,
              planned, hashed, answer, done, ops, outcome, prev>>
unitVars == <<call, ret>>
vars == <<fs, fs0, pc, arguments, old_media_paths, metadata, idx, rename_dict,
          planned, hashed, answer, done, ops, outcome, prev, call, ret, tool>>

\* Largest number of files in the initial file system
MaxFiles == 3

PathA == MkPath(<<"d", "1">>, <<"a", ".", "j", "p", "g">>)
PathB == MkPath(<<"d", "1">>, <<"b", ".", "J", "P", "G">>)
PathC == MkPath(<<"d", "2">>, <<"c", ".", "p", "n", "g">>)
PathT == MkPath(<<"d", "1">>, <<"2", "0", "2", "3", "-", "0", "5", "-", "0", "1", "_", "1", "4", "-", "3", "0", "-", "0", "0", "_", "a", "1", "b", "2", "c", "3", "d", "4", ".", "j", "p", "g">>)
PathTxt == MkPath(<<"d", "1">>, <<"n", "o", "t", "e", "s", ".", "t", "x", "t">>)

CandidatePaths == {PathA, PathB, PathC, PathT, PathTxt}

InitialFileSystems ==
    {f \in UNION {[S -> Contents] : S \in {S \in SUBSET CandidatePaths : Cardinality(S) <= MaxFiles}} :
        PathTxt \in DOMAIN f => f[PathTxt] = "N"}

PatternAll == [dir |-> <<"*", "*">>, name |-> <<"*">>]
PatternA == [dir |-> <<"d", "1">>, name |-> <<"a", "*">>]

PatternLists == {<<PatternAll>>, <<PatternA, PatternAll>>, <<PatternA>>}

ArgumentChoices ==
    [glob_patterns : PatternLists, force : BOOLEAN, dry_run : BOOLEAN]

Answers == {<<"y">>, <<"Y">>, <<"n">>, <<"y", "e", "s">>, <<>>}

NoArguments == [glob_patterns |-> <<>>, force |-> FALSE, dry_run |-> FALSE]
NoPrev == [executed |-> FALSE, files |-> {}, glob_patterns |-> <<>>]
Idle == [pc |-> "idle"]

MainInit ==
    /\ fs \in InitialFileSystems
    /\ fs0 = fs
    /\ pc = "start"
    /\ arguments = NoArguments
    /\ old_media_paths = <<>>
    /\ metadata = <<>>
    /\ idx = 0
    /\ rename_dict = <<>>
    /\ planned = FALSE
    /\ hashed = {}
    /\ answer = <<>>
    /\ done = 0
    /\ ops = <<>>
    /\ outcome = "running"
    /\ prev = NoPrev

Init ==
    /\ MainInit
    /\ call = Idle
    /\ ret = Idle
    /\ tool = Idle

(***************************************************************************)
(* The program: main                                                       *)
(***************************************************************************)

Finish(how) ==
    /\ pc' = "done"
    /\ outcome' = how

\* main, line 34: parse_arguments
ParseArguments ==
    /\ pc = "start"
    /\ arguments' \in ArgumentChoices
    /\ pc' = "collect"
    /\ UNCHANGED <<fs, fs0, old_media_paths, metadata, idx, rename_dict, planned,
                   hashed, answer, done, ops, outcome, prev>>

\* main, lines 35-36: collect_media_paths, RuntimeError when nothing matches
CollectMediaPaths ==
    /\ pc = "collect"
    /\ \E globbed \in GlobResults(fs, arguments.glob_patterns) :
          old_media_paths' = collect_media_paths(globbed)
    /\ IF Len(old_media_paths') = 0
       THEN Finish("RuntimeError")
       ELSE pc' = "metadata" /\ UNCHANGED outcome
    /\ UNCHANGED <<fs, fs0, arguments, metadata, idx, rename_dict, planned,
                   hashed, answer, done, ops, prev>>

\* get_rename_dict, lines 106-115: the batched metadata call succeeds
GetMetadata ==
    /\ pc = "metadata"
    /\ metadata' = [j \in 1..Len(old_media_paths) |->
                       MetadataEntry(old_media_paths[j], fs[old_media_paths[j]])]
    /\ rename_dict' = <<>>
    /\ idx' = 0
    /\ pc' = "plan"
    /\ UNCHANGED <<fs, fs0, arguments, old_media_paths, planned, hashed, answer,
                   done, ops, outcome, prev>>

\* get_rename_dict, lines 106-114: starting exiftool or the metadata call fails
ExifToolFails ==
    /\ pc = "metadata"
    /\ Finish("ExifToolError")
    /\ UNCHANGED <<fs, fs0, arguments, old_media_paths, metadata, idx, rename_dict,
                   planned, hashed, answer, done, ops, prev>>

\* Mutant of PlanEntry: the comparison of line 120 is missing
PlanEntryAlways(d, old_media_path, new_media_path) ==
    DictSet(d, old_media_path, new_media_path)

\* Lines 120-122: no entry when the file already has its new name
PlanEntry(d, old_media_path, new_media_path) ==
    IF old_media_path = new_media_path THEN d
    ELSE DictSet(d, old_media_path, new_media_path)

\* Mutant of PlanOne: the file is read and hashed before the datetime is tested
PlanOneHashFirst(files, d, h, old_media_path, metadata_entry) ==
    LET creation_datetime == get_creation_datetime(metadata_entry)
    IN  CASE creation_datetime.kind = "error" ->
               [raised |-> TRUE, dict |-> d, read |-> h]
          [] creation_datetime.kind = "none" ->
               [raised |-> FALSE, dict |-> d, read |-> h \cup {old_media_path}]
          [] creation_datetime.kind = "datetime" ->
               [raised |-> FALSE,
                dict |-> PlanEntry(d, old_media_path,
                                   format_media_path(files, old_media_path, creation_datetime)),
                read |-> h \cup {old_media_path}]

\* Lines 117-122, one iteration of the loop of get_rename_dict on the dict d and
\* the set h of files read so far: whether it raised, the dict and the files read
PlanOne(files, d, h, old_media_path, metadata_entry) ==
    LET creation_datetime == get_creation_datetime(metadata_entry)
    IN  CASE creation_datetime.kind = "error" ->
               [raised |-> TRUE, dict |-> d, read |-> h]
          [] creation_datetime.kind = "none" ->
               [raised |-> FALSE, dict |-> d, read |-> h]
          [] creation_datetime.kind = "datetime" ->
               [raised |-> FALSE,
                dict |-> PlanEntry(d, old_media_path,
                                   format_media_path(files, old_media_path, creation_datetime)),
                read |-> h \cup {old_media_path}]

\* get_rename_dict, lines 116-122: one iteration of the loop
PlanStep ==
    /\ pc = "plan"
    /\ idx < Len(old_media_paths)
    /\ LET r == PlanOne(fs, rename_dict, hashed, old_media_paths[idx + 1], metadata[idx + 1])
       IN  /\ hashed' = r.read
           /\ rename_dict' = r.dict
           /\ IF r.raised
              THEN Finish("ValueError") /\ UNCHANGED idx
              ELSE idx' = idx + 1 /\ UNCHANGED <<pc, outcome>>
    /\ UNCHANGED <<fs, fs0, arguments, old_media_paths, metadata, planned, answer,
                   done, ops, prev>>

\* main, line 42: the executor may run without asking
SkipsPrompt(args) == args.force

\* Mutant of Confirms: any answer that begins with y is taken
ConfirmsPrefix(text) == text # <<>> /\ LowerChar(text[1]) = "y"

\* main, line 42: the answer lets the executor run
Confirms(text) == StrLower(text) = <<"y">>

\* get_rename_dict line 123 and main lines 37-42 up to the prompt
PlanReturns ==
    /\ pc = "plan"
    /\ idx = Len(old_media_paths)
    /\ planned' = TRUE
    /\ IF Len(rename_dict) = 0 THEN Finish("no_renames")
       ELSE IF arguments.dry_run THEN Finish("dry_run")
       ELSE IF SkipsPrompt(arguments) THEN pc' = "rename" /\ UNCHANGED outcome
       ELSE pc' = "prompt" /\ UNCHANGED outcome
    /\ UNCHANGED <<fs, fs0, arguments, old_media_paths, metadata, idx, rename_dict,
                   hashed, answer, done, ops, prev>>

\* main, line 42: input("Continue [y/n]? ")
Prompt ==
    /\ pc = "prompt"
    /\ answer' \in Answers
    /\ IF Confirms(answer') THEN pc' = "rename" /\ UNCHANGED outcome
       ELSE Finish("aborted")
    /\ UNCHANGED <<fs, fs0, arguments, old_media_paths, metadata, idx, rename_dict,
                   planned, hashed, done, ops, prev>>

\* Where a completed run has left the collected files: those without entry
\* where they were, those moved at their targets
ResultFiles(files) ==
    (({old_media_paths[j] : j \in 1..Len(old_media_paths)} \ DictKeys(rename_dict))
        \cup {ops[j].new : j \in {k \in 1..Len(ops) : ~ops[k].unlinked}})
        \cap DOMAIN files

\* rename, lines 247-251: one entry of the mapping
RenameStep ==
    /\ pc = "rename"
    /\ done < Len(rename_dict)
    /\ LET old_path == rename_dict[done + 1][1]
           new_path == rename_dict[done + 1][2]
       IN  IF ~IsFile(fs, old_path)
           THEN /\ Finish("FileNotFoundError")
                /\ UNCHANGED <<fs, done, ops>>
           ELSE /\ fs' = RenameEntry(fs, old_path, new_path)
                /\ ops' = Append(ops, [old |-> old_path, new |-> new_path,
                                       unlinked |-> IsFile(fs, new_path),
                                       same |-> IsFile(fs, new_path)
                                                  /\ fs[new_path] = fs[old_path]])
                /\ done' = done + 1
                /\ IF done' = Len(rename_dict)
                   THEN Finish("renamed")
                   ELSE UNCHANGED <<pc, outcome>>
    /\ UNCHANGED <<fs0, arguments, old_media_paths, metadata, idx, rename_dict,
                   planned, hashed, answer, prev>>

\* The program is started again on the files the last run left; prev keeps
\* the files of the last run that executed its plan
Restart ==
    /\ pc = "done"
    /\ fs0' = fs
    /\ pc' = "start"
    /\ arguments' = NoArguments
    /\ old_media_paths' = <<>>
    /\ metadata' = <<>>
    /\ idx' = 0
    /\ rename_dict' = <<>>
    /\ planned' = FALSE
    /\ hashed' = {}
    /\ answer' = <<>>
    /\ done' = 0
    /\ ops' = <<>>
    /\ outcome' = "running"
    /\ prev' = IF outcome = "renamed"
               THEN [executed |-> TRUE, files |-> ResultFiles(fs),
                     glob_patterns |-> arguments.glob_patterns]
               ELSE prev
    /\ UNCHANGED fs

Next ==
    \/ ParseArguments /\ UNCHANGED <<call, ret, tool>>
    \/ CollectMediaPaths /\ UNCHANGED <<call, ret, tool>>
    \/ GetMetadata /\ UNCHANGED <<call, ret, tool>>
    \/ ExifToolFails /\ UNCHANGED <<call, ret, tool>>
    \/ PlanStep /\ UNCHANGED <<call, ret, tool>>
    \/ PlanReturns /\ UNCHANGED <<call, ret, tool>>
    \/ Prompt /\ UNCHANGED <<call, ret, tool>>
    \/ RenameStep /\ UNCHANGED <<call, ret, tool>>
    \/ Restart /\ UNCHANGED <<call, ret, tool>>

Spec == Init /\ [][Next]_vars

(***************************************************************************)
(* Properties of main, get_rename_dict and rename                          *)
(***************************************************************************)

\* The contents by what their tags hold: a valid datetime, no usable
\* timestamp (no tag, or a first tag that does not match the pattern), and a
\* value that matches the pattern but is no calendar date
DatedContents == {"A", "B", "D"}
UndatedContents == {"N", "U"}
InvalidContents == {"X"}

Collected == {old_media_paths[j] : j \in 1..Len(old_media_paths)}

DictGet(d, key) == d[CHOOSE j \in 1..Len(d) : d[j][1] = key][2]

\* Pairs of distinct collected files with the same bytes, which carry a datetime
Twins ==
    {t \in Collected \X Collected :
        /\ t[1] # t[2]
        /\ fs0[t[1]] = fs0[t[2]]
        /\ fs0[t[1]] \in DatedContents}

\* What rename did with the source p: the entries of ops for p
OpsOf(p) == {j \in 1..Len(ops) : ops[j].old = p}

OneDeletedOneMoved(p, q) ==
    /\ Cardinality(OpsOf(p)) = 1
    /\ Cardinality(OpsOf(q)) = 1
    /\ \A j \in OpsOf(p), k \in OpsOf(q) : ops[j].unlinked # ops[k].unlinked

\* C1 as stated: any two distinct collected files with the same bytes (and so the
\* same capture timestamp) get the same target in the plan, and once rename has
\* executed the plan one was deleted and one moved, the target exists and neither
\* source exists.
C1_TwinsShareTarget ==
    \A t \in Twins :
        /\ planned =>
              /\ t[1] \in DictKeys(rename_dict)
              /\ t[2] \in DictKeys(rename_dict)
              /\ DictGet(rename_dict, t[1]) = DictGet(rename_dict, t[2])
        /\ outcome = "renamed" =>
              /\ DictGet(rename_dict, t[1]) \in DOMAIN fs
              /\ t[1] \notin DOMAIN fs
              /\ t[2] \notin DOMAIN fs
              /\ OneDeletedOneMoved(t[1], t[2])

\* The name the file at p in fs0 has after renaming: its datetime, its hash
CanonicalPath(p) ==
    format_media_path(fs0, p, get_creation_datetime(MetadataEntry(p, fs0[p])))

SameDirAndSuffix(p, q) ==
    /\ p.dir = q.dir
    /\ StrLower(Suffix(p)) = StrLower(Suffix(q))

\* No file is at the target before the run, the plan maps nothing else to the
\* target and nothing to the two sources
TargetFree(p, q, target) ==
    /\ target \notin DOMAIN fs0
    /\ \A j \in 1..Len(rename_dict) :
          /\ rename_dict[j][2] = target => rename_dict[j][1] \in {p, q}
          /\ rename_dict[j][2] \notin {p, q}

\* C1, amended: two distinct collected files with the same bytes in the same
\* directory and with the same lower-cased extension have the same target; the
\* plan maps each of them that is not at the target to it; and if no file was at
\* the target before the run, nothing else is mapped to it and nothing is mapped
\* to the two sources, rename deletes one and moves the other, the target then
\* holds their content and neither source exists.
C1_TwinsInOneDirectoryMerge ==
    \A t \in Twins :
        SameDirAndSuffix(t[1], t[2]) =>
            /\ CanonicalPath(t[1]) = CanonicalPath(t[2])
            /\ planned =>
                  \A r \in {t[1], t[2]} :
                      r # CanonicalPath(r) =>
                          /\ r \in DictKeys(rename_dict)
                          /\ DictGet(rename_dict, r) = CanonicalPath(t[1])
            /\ (outcome = "renamed" /\ TargetFree(t[1], t[2], CanonicalPath(t[1]))) =>
                  /\ CanonicalPath(t[1]) \in DOMAIN fs
                  /\ fs[CanonicalPath(t[1])] = fs0[t[1]]
                  /\ t[1] \notin DOMAIN fs
                  /\ t[2] \notin DOMAIN fs
                  /\ OneDeletedOneMoved(t[1], t[2])

\* Witness of C1: a plan with two such files has been executed
C1_Witness ==
    /\ outcome = "renamed"
    /\ \E t \in Twins :
          /\ SameDirAndSuffix(t[1], t[2])
          /\ TargetFree(t[1], t[2], CanonicalPath(t[1]))
          /\ Len(ops) >= 2

\* C2: the plan never holds an entry whose target is its source; in a run that
\* follows a run which executed its plan, no file which that run left where it
\* was or moved to its target (contents and tags unchanged) gets an entry; and
\* when the run has the glob patterns of that run, its plan is empty.
C2_PlannerIdempotent ==
    /\ \A j \in 1..Len(rename_dict) : rename_dict[j][1] # rename_dict[j][2]
    /\ prev.executed =>
          /\ \A j \in 1..Len(rename_dict) : rename_dict[j][1] \notin prev.files
          /\ arguments.glob_patterns = prev.glob_patterns => rename_dict = <<>>

\* Witness of C2: the planner has gone again through files a run had renamed
C2_Witness ==
    /\ prev.executed
    /\ planned
    /\ arguments.glob_patterns = prev.glob_patterns
    /\ \E p \in Collected \cap prev.files : fs0[p] \in DatedContents

\* The executor has been invoked in this run
RenameInvoked == pc = "rename" \/ done > 0 \/ outcome \in {"renamed", "FileNotFoundError"}

\* C4: rename is invoked only when a path was collected, the plan is not empty,
\* dry_run is not set and either force is set or the answer is "y" in any case;
\* a dry run never reaches the prompt; a run that does not invoke rename leaves
\* the file system as it was.
C4_MutationOnlyWhenConfirmed ==
    /\ RenameInvoked =>
          /\ Len(old_media_paths) > 0
          /\ Len(rename_dict) > 0
          /\ ~arguments.dry_run
          /\ arguments.force \/ answer \in {<<"y">>, <<"Y">>}
    /\ arguments.dry_run => pc # "prompt" /\ outcome # "aborted"
    /\ arguments.force => pc # "prompt" /\ outcome # "aborted"
    /\ ~RenameInvoked => fs = fs0
    /\ outcome = "RuntimeError" <=> (pc = "done" /\ Len(old_media_paths) = 0)

\* Witness of C4: a run confirmed at the prompt has changed the file system
C4_Witness ==
    /\ outcome = "renamed"
    /\ ~arguments.force
    /\ answer = <<"Y">>
    /\ fs # fs0

\* C5: a collected file without usable timestamp gets no entry and never ends
\* the run: a run ends with ValueError only at a file whose value matches the
\* pattern and is no calendar date, and get_rename_dict returns only after all
\* files were processed; when a file with such a value was collected, wherever
\* it is in the order, get_rename_dict does not return, the executor is not
\* invoked and the file system is unchanged.
C5_TimestampFailuresAsymmetric ==
    /\ \A p \in Collected : fs0[p] \in UndatedContents => p \notin DictKeys(rename_dict)
    /\ outcome = "ValueError" =>
          /\ idx < Len(old_media_paths)
          /\ fs0[old_media_paths[idx + 1]] \in InvalidContents
    /\ planned => idx = Len(old_media_paths)
    /\ (\E p \in Collected : fs0[p] \in InvalidContents) =>
          /\ ~planned
          /\ ~RenameInvoked
          /\ pc # "prompt"
          /\ fs = fs0
          /\ (pc = "done" => outcome \in {"ValueError", "ExifToolError"})

\* Witness of C5: the run was aborted at an invalid date that came after a file
\* without usable timestamp and after a file that got an entry
C5_Witness ==
    /\ outcome = "ValueError"
    /\ idx = 2
    /\ Len(rename_dict) = 1
    /\ \E j \in 1..idx : fs0[old_media_paths[j]] \in UndatedContents

\* C7: a collected file without usable timestamp has no entry in the plan and
\* is not among the files whose bytes were read and hashed.
C7_UndatedNeverHashed ==
    \A p \in Collected :
        fs0[p] \in UndatedContents => (p \notin hashed /\ p \notin DictKeys(rename_dict))

\* Witness of C7: planning has finished on files with and without timestamp
C7_Witness ==
    /\ planned
    /\ hashed # {}
    /\ \E p \in Collected : fs0[p] \in UndatedContents

FileContents(files) == {files[p] : p \in DOMAIN files}

\* C10: every source rename deletes has at that moment a file with the same
\* bytes at its target, and every content present when the run started is
\* still present at some path.
C10_NoContentLost ==
    /\ \A j \in 1..Len(ops) : ops[j].unlinked => ops[j].same
    /\ FileContents(fs0) \subseteq FileContents(fs)

(***************************************************************************)
(* Single calls of get_creation_datetime, format_media_path and            *)
(* collect_media_paths on inputs drawn from bounded sets                   *)
(***************************************************************************)

\* main is not running
MainIdle ==
    /\ fs = <<>>
    /\ fs0 = <<>>
    /\ pc = "idle"
    /\ arguments = NoArguments
    /\ old_media_paths = <<>>
    /\ metadata = <<>>
    /\ idx = 0
    /\ rename_dict = <<>>
    /\ planned = FALSE
    /\ hashed = {}
    /\ answer = <<>>
    /\ done = 0
    /\ ops = <<>>
    /\ outcome = "idle"
    /\ prev = NoPrev

Returned(value) == [pc |-> "returned", value |-> value]

\* Values of a timestamp tag
TimestampStrings ==
    {<<"2", "0", "2", "3", ":", "0", "5", ":", "0", "1", " ", "1", "4", ":", "3", "0", ":", "0", "0">>,
     <<"2", "0", "2", "3", ":", "0", "5", ":", "0", "1", " ", "1", "4", ":", "3", "0", ":", "0", "0", "+", "0", "2", ":", "0", "0">>,
     <<"2", "0", "2", "3", ":", "5", ":", "1", " ", "1", ":", "2", ":", "3", "-", "1", "1", ":", "3", "0">>,
     <<"2", "0", "2", "4", ":", "0", "2", ":", "2", "9", " ", "2", "3", ":", "5", "9", ":", "5", "9">>,
     <<"2", "0", "2", "3", ":", "0", "2", ":", "2", "9", " ", "1", "0", ":", "0", "0", ":", "0", "0">>,
     <<"2", "0", "2", "3", ":", "1", "3", ":", "0", "1", " ", "1", "4", ":", "3", "0", ":", "0", "0">>,
     <<"2", "0", "2", "3", ":", "0", "5", ":", "0", "1", " ", "1", "4", ":", "3", "0", ":", "0", "0", "Z">>,
     <<"2", "0", "2", "3", "-", "0", "5", "-", "0", "1", " ", "1", "4", ":", "3", "0", ":", "0", "0">>,
     <<"n", "o", "t", "-", "a", "-", "d", "a", "t", "e">>}

\* A record with each of the two tags absent or present
TagRecords ==
    {MetadataEntry(PathA, "N")}
    \cup {MetadataEntry(PathA, "N") @@ ("EXIF:DateTimeOriginal" :> e) : e \in TimestampStrings}
    \cup {MetadataEntry(PathA, "N") @@ ("QuickTime:CreationDate" :> q) : q \in TimestampStrings}
    \cup {MetadataEntry(PathA, "N") @@ ("EXIF:DateTimeOriginal" :> e)
              @@ ("QuickTime:CreationDate" :> q) : e \in TimestampStrings, q \in TimestampStrings}

DatetimeInit ==
    /\ MainIdle
    /\ tool = Idle
    /\ call \in [metadata : TagRecords]
    /\ ret = Idle

CallGetCreationDatetime ==
    /\ ret = Idle
    /\ ret' = Returned(get_creation_datetime(call.metadata))
    /\ UNCHANGED call

DatetimeNext == CallGetCreationDatetime /\ UNCHANGED mainVars /\ UNCHANGED tool

SpecDatetime == DatetimeInit /\ [][DatetimeNext]_vars

FormatPaths ==
    {PathA, PathB, PathC, MkPath(<<"d", "2">>, <<"I", "M", "G", ".", "0", "0", "0", "1", ".", "M", "O", "V">>), MkPath(<<"d", "1">>, <<"x", ".", "P", "n", "g">>)}

FormatDatetimes ==
    {Datetime(2023, 5, 1, 14, 30, 0), Datetime(2024, 2, 29, 8, 5, 9),
     Datetime(987, 12, 31, 23, 59, 59), Datetime(2023, 1, 2, 0, 0, 0)}

FormatInit ==
    /\ MainIdle
    /\ tool = Idle
    /\ call \in [old_media_path : FormatPaths, creation_datetime : FormatDatetimes,
                 content : Contents]
    /\ ret = Idle

CallFormatMediaPath ==
    /\ ret = Idle
    /\ ret' = Returned(format_media_path(call.old_media_path :> call.content,
                                         call.old_media_path, call.creation_datetime))
    /\ UNCHANGED call

FormatNext == CallFormatMediaPath /\ UNCHANGED mainVars /\ UNCHANGED tool

SpecFormat == FormatInit /\ [][FormatNext]_vars

\* Largest number of glob patterns of one call of collect_media_paths
MaxPatterns == 2

CollectDir == <<"d">>

CollectFiles ==
    {MkPath(CollectDir, <<"b", "2", ".", "j", "p", "g">>), MkPath(CollectDir, <<"b", "1", ".", "J", "P", "G">>),
     MkPath(CollectDir, <<"a", "2", ".", "p", "n", "g">>), MkPath(CollectDir, <<"a", "1", ".", "m", "o", "v">>),
     MkPath(CollectDir, <<"a", "3", ".", "t", "x", "t">>)}

CollectFs == [p \in CollectFiles |-> "N"]

CollectPatterns ==
    {[dir |-> CollectDir, name |-> <<"b", "*">>], [dir |-> CollectDir, name |-> <<"a", "*">>],
     [dir |-> <<"*", "*">>, name |-> <<"*", "1", "*">>]}

CollectPatternLists ==
    UNION {[1..n -> CollectPatterns] : n \in 1..MaxPatterns}

CollectInit ==
    /\ MainIdle
    /\ tool = Idle
    /\ \E glob_patterns \in CollectPatternLists :
          \E globbed \in GlobResults(CollectFs, glob_patterns) :
              call = [glob_patterns |-> glob_patterns, globbed |-> globbed]
    /\ ret = Idle

CallCollectMediaPaths ==
    /\ ret = Idle
    /\ ret' = Returned(collect_media_paths(call.globbed))
    /\ UNCHANGED call

CollectNext == CallCollectMediaPaths /\ UNCHANGED mainVars /\ UNCHANGED tool

SpecCollect == CollectInit /\ [][CollectNext]_vars

(***************************************************************************)
(* Properties of the single calls                                          *)
(***************************************************************************)

TwoDigits(n) == <<DigitChars[(n \div 10) + 1], DigitChars[(n % 10) + 1]>>

FourDigits(n) == TwoDigits(n \div 100) \o TwoDigits(n % 100)

\* YYYY-MM-DD<sep>HH-MM-SS
Stamp(dt, sep) ==
    FourDigits(dt.year) \o <<"-">> \o TwoDigits(dt.month) \o <<"-">> \o TwoDigits(dt.day)
        \o sep \o TwoDigits(dt.hour) \o <<"-">> \o TwoDigits(dt.minute) \o <<"-">>
        \o TwoDigits(dt.second)

\* The stem: the stamp, "_", the first eight characters of the digest
StemWith(sep) ==
    Stamp(call.creation_datetime, sep) \o <<"_">> \o SubSeq(Sha256Hex(call.content), 1, 8)

IsExample == call.creation_datetime = Datetime(2023, 5, 1, 14, 30, 0) /\ call.content = "A"

\* C3 as stated: the new path is in the directory of the old one, its suffix is
\* the old suffix in lower case and its stem is the timestamp with "T" between
\* date and time, "_" and the first 8 characters of the digest; the stem of the
\* example is 2023-05-01T14-30-00_a1b2c3d4.
C3_StemWithT ==
    ret.pc = "returned" =>
        /\ ret.value.dir = call.old_media_path.dir
        /\ Suffix(ret.value) = StrLower(Suffix(call.old_media_path))
        /\ Stem(ret.value) = StemWith(<<"T">>)
        /\ IsExample => Stem(ret.value) = <<"2", "0", "2", "3", "-", "0", "5", "-", "0", "1", "T", "1", "4", "-", "3", "0", "-", "0", "0", "_", "a", "1", "b", "2", "c", "3", "d", "4">>

\* C3, amended: as stated, with "_" between date and time; the stem of the
\* example is 2023-05-01_14-30-00_a1b2c3d4.
C3_StemWithUnderscore ==
    ret.pc = "returned" =>
        /\ ret.value.dir = call.old_media_path.dir
        /\ Suffix(ret.value) = StrLower(Suffix(call.old_media_path))
        /\ Stem(ret.value) = StemWith(<<"_">>)
        /\ IsExample => Stem(ret.value) = <<"2", "0", "2", "3", "-", "0", "5", "-", "0", "1", "_", "1", "4", "-", "3", "0", "-", "0", "0", "_", "a", "1", "b", "2", "c", "3", "d", "4">>

\* Witness of C3: the example, formatted for a file with an upper-case suffix
C3_Witness ==
    /\ ret.pc = "returned"
    /\ IsExample
    /\ call.old_media_path = PathB

IsListedMedia(p) == StrLower(Suffix(p)) \in {<<".", "j", "p", "g">>, <<".", "m", "o", "v">>, <<".", "p", "n", "g">>}

\* The media files among what glob returned for pattern i
MediaOf(i) == {call.globbed[i][j] : j \in {k \in 1..Len(call.globbed[i]) : IsListedMedia(call.globbed[i][k])}}

RECURSIVE Offset(_)
Offset(i) == IF i <= 1 THEN 0 ELSE Offset(i - 1) + Cardinality(MediaOf(i - 1))

\* C6: the result is, pattern by pattern in input order, the media files the
\* pattern matched in increasing order: nothing is sorted across patterns and a
\* file matched by two patterns is there twice; for the patterns b*, a* the
\* result is b1, b2, a1, a2.
C6_PerPatternSortedConcatenation ==
    ret.pc = "returned" =>
        /\ Len(ret.value) = Offset(Len(call.globbed) + 1)
        /\ \A i \in 1..Len(call.globbed) :
              /\ {ret.value[j] : j \in (Offset(i) + 1)..Offset(i + 1)} = MediaOf(i)
              /\ \A j \in (Offset(i) + 1)..(Offset(i + 1) - 1) :
                    PathLess(ret.value[j], ret.value[j + 1])
        /\ call.glob_patterns = <<[dir |-> CollectDir, name |-> <<"b", "*">>],
                                  [dir |-> CollectDir, name |-> <<"a", "*">>]>> =>
              ret.value = <<MkPath(CollectDir, <<"b", "1", ".", "J", "P", "G">>), MkPath(CollectDir, <<"b", "2", ".", "j", "p", "g">>),
                            MkPath(CollectDir, <<"a", "1", ".", "m", "o", "v">>), MkPath(CollectDir, <<"a", "2", ".", "p", "n", "g">>)>>

\* Witness of C6: two overlapping patterns, each match listed by glob in
\* decreasing order; the result holds a file twice and is not sorted as a whole
C6_Witness ==
    /\ ret.pc = "returned"
    /\ call.globbed = <<<<MkPath(CollectDir, <<"b", "1", ".", "J", "P", "G">>), MkPath(CollectDir, <<"a", "1", ".", "m", "o", "v">>)>>,
                        <<MkPath(CollectDir, <<"a", "3", ".", "t", "x", "t">>), MkPath(CollectDir, <<"a", "2", ".", "p", "n", "g">>),
                          MkPath(CollectDir, <<"a", "1", ".", "m", "o", "v">>)>>>>
    /\ Len(ret.value) = 4

DatetimeValue(y, mo, d, h, mi, s) ==
    [kind |-> "datetime", year |-> y, month |-> mo, day |-> d,
     hour |-> h, minute |-> mi, second |-> s]

\* What each value of a timestamp tag stands for
Meaning(text) ==
    CASE text = <<"2", "0", "2", "3", ":", "0", "5", ":", "0", "1", " ", "1", "4", ":", "3", "0", ":", "0", "0">> -> DatetimeValue(2023, 5, 1, 14, 30, 0)
      [] text = <<"2", "0", "2", "3", ":", "0", "5", ":", "0", "1", " ", "1", "4", ":", "3", "0", ":", "0", "0", "+", "0", "2", ":", "0", "0">> -> DatetimeValue(2023, 5, 1, 14, 30, 0)
      [] text = <<"2", "0", "2", "3", ":", "5", ":", "1", " ", "1", ":", "2", ":", "3", "-", "1", "1", ":", "3", "0">> -> DatetimeValue(2023, 5, 1, 1, 2, 3)
      [] text = <<"2", "0", "2", "4", ":", "0", "2", ":", "2", "9", " ", "2", "3", ":", "5", "9", ":", "5", "9">> -> DatetimeValue(2024, 2, 29, 23, 59, 59)
      [] text = <<"2", "0", "2", "3", ":", "0", "2", ":", "2", "9", " ", "1", "0", ":", "0", "0", ":", "0", "0">> -> [kind |-> "error"]
      [] text = <<"2", "0", "2", "3", ":", "1", "3", ":", "0", "1", " ", "1", "4", ":", "3", "0", ":", "0", "0">> -> [kind |-> "error"]
      [] OTHER -> [kind |-> "none"]

HasTag(key) == key \in DOMAIN call.metadata

\* C9: when EXIF:DateTimeOriginal is present its value alone decides the result,
\* also when it does not match and QuickTime:CreationDate is valid;
\* QuickTime:CreationDate decides only when EXIF:DateTimeOriginal is absent;
\* the result is none when both are absent.
C9_FirstPresentFieldDecides ==
    ret.pc = "returned" =>
        ret.value = IF HasTag("EXIF:DateTimeOriginal")
                    THEN Meaning(call.metadata["EXIF:DateTimeOriginal"])
                    ELSE IF HasTag("QuickTime:CreationDate")
                    THEN Meaning(call.metadata["QuickTime:CreationDate"])
                    ELSE [kind |-> "none"]

\* Witness of C9: the photo tag does not match, the video tag is valid, the
\* result is none
C9_Witness ==
    /\ ret.pc = "returned"
    /\ HasTag("EXIF:DateTimeOriginal")
    /\ HasTag("QuickTime:CreationDate")
    /\ call.metadata["EXIF:DateTimeOriginal"] = <<"n", "o", "t", "-", "a", "-", "d", "a", "t", "e">>
    /\ call.metadata["QuickTime:CreationDate"] = <<"2", "0", "2", "3", ":", "0", "5", ":", "0", "1", " ", "1", "4", ":", "3", "0", ":", "0", "0">>
    /\ ret.value = [kind |-> "none"]

(***************************************************************************)
(* get_rename_dict, lines 106-114, and download_exiftool_on_windows:       *)
(* the ExitStack, the temporary directory and the PATH                     *)
(***************************************************************************)

\* os.environ.get("PATH"): unset, or a string
PathUnset == [set |-> FALSE, value |-> <<>>]
PathValue(v) == [set |-> TRUE, value |-> v]

PathEnvironments ==
    {PathUnset, PathValue(<<>>), PathValue(<<"C", ":", "/", "W", "i", "n", "d", "o", "w", "s">>), PathValue(<<"C", ":", "/", "W", "i", "n", "d", "o", "w", "s", ";", "C", ":", "/", "b", "i", "n">>)}

TempNames == {<<"C", ":", "/", "T", "e", "m", "p", "/", "t", "m", "p", "1">>, <<"C", ":", "/", "T", "e", "m", "p", "/", "t", "m", "p", "2">>}

PathSep == <<";">>

\* Lines 200-204: the temporary directory is put in front of the PATH
PrependPath(dir, env) ==
    PathValue(dir \o PathSep \o (IF env.set THEN env.value ELSE <<>>))

\* Lines 206-209: the PATH gets the value it had, or is deleted
RestorePath(original_path) ==
    IF ~original_path.set THEN PathUnset ELSE PathValue(original_path.value)

\* TemporaryDirectory.__exit__: the directory is removed
RemoveTemp(t) == [t EXCEPT !.tmpdirs = @ \ {t.tmp}]

\* The generator resumes after the yield when the scope ends without an error:
\* lines 206-209, then the end of the with block of line 183
CloseNormally(t) ==
    RemoveTemp([t EXCEPT !.PATH = RestorePath(t.original_path)])

\* The error of the scope is thrown into the generator at the yield of line 205:
\* it leaves the function through the with block of line 183
CloseOnError(t) == RemoveTemp(t)

\* ExitStack.__exit__: the context managers entered are closed
UnwindStack(t, failed) ==
    IF ~t.entered THEN t
    ELSE IF failed THEN CloseOnError(t) ELSE CloseNormally(t)

ToolInit ==
    /\ MainIdle
    /\ call = Idle
    /\ ret = Idle
    /\ \E platform \in {"win32", "linux"}, found \in BOOLEAN, env \in PathEnvironments :
          tool = [pc |-> "enter", platform |-> platform, found |-> found,
                  PATH |-> env, path0 |-> env, original_path |-> PathUnset,
                  tmpdirs |-> {}, tmp |-> <<>>, entered |-> FALSE]

\* Line 107: download only on Windows without exiftool.exe on the PATH
EnterStack ==
    /\ tool.pc = "enter"
    /\ tool' = [tool EXCEPT !.pc = IF tool.platform = "win32" /\ ~tool.found
                                   THEN "download" ELSE "start_helper"]

\* Line 183: tempfile.TemporaryDirectory()
MakeTempDir ==
    /\ tool.pc = "download"
    /\ \E tmp \in TempNames :
          tool' = [tool EXCEPT !.pc = "fetch", !.tmp = tmp, !.tmpdirs = @ \cup {tmp}]

\* Lines 188-192: the archive is downloaded
Fetch ==
    /\ tool.pc = "fetch"
    /\ tool' = [tool EXCEPT !.pc = "extract"]

\* Lines 188-192: the download fails
FetchFails ==
    /\ tool.pc = "fetch"
    /\ tool' = [RemoveTemp(tool) EXCEPT !.pc = "raised"]

\* Lines 193-198: the executable is extracted
Extract ==
    /\ tool.pc = "extract"
    /\ tool' = [tool EXCEPT !.pc = "set_path"]

\* Lines 195-198: the archive cannot be read
ExtractFails ==
    /\ tool.pc = "extract"
    /\ tool' = [RemoveTemp(tool) EXCEPT !.pc = "raised"]

\* Lines 199-205: the PATH is changed and the generator yields
SetPath ==
    /\ tool.pc = "set_path"
    /\ tool' = [tool EXCEPT !.pc = "start_helper",
                            !.original_path = tool.PATH,
                            !.PATH = PrependPath(tool.tmp, tool.PATH),
                            !.entered = TRUE]

\* Line 109: exiftool starts
StartHelper ==
    /\ tool.pc = "start_helper"
    /\ tool' = [tool EXCEPT !.pc = "get_metadata"]

\* Line 109: exiftool cannot be started
StartHelperFails ==
    /\ tool.pc = "start_helper"
    /\ tool' = [UnwindStack(tool, TRUE) EXCEPT !.pc = "raised"]

\* Line 114: the metadata call returns, the with block ends
MetadataCall ==
    /\ tool.pc = "get_metadata"
    /\ tool' = [UnwindStack(tool, FALSE) EXCEPT !.pc = "returned"]

\* Line 114: the metadata call fails
MetadataCallFails ==
    /\ tool.pc = "get_metadata"
    /\ tool' = [UnwindStack(tool, TRUE) EXCEPT !.pc = "raised"]

ToolNext ==
    \/ EnterStack /\ UNCHANGED mainVars /\ UNCHANGED unitVars
    \/ MakeTempDir /\ UNCHANGED mainVars /\ UNCHANGED unitVars
    \/ Fetch /\ UNCHANGED mainVars /\ UNCHANGED unitVars
    \/ FetchFails /\ UNCHANGED mainVars /\ UNCHANGED unitVars
    \/ Extract /\ UNCHANGED mainVars /\ UNCHANGED unitVars
    \/ ExtractFails /\ UNCHANGED mainVars /\ UNCHANGED unitVars
    \/ SetPath /\ UNCHANGED mainVars /\ UNCHANGED unitVars
    \/ StartHelper /\ UNCHANGED mainVars /\ UNCHANGED unitVars
    \/ StartHelperFails /\ UNCHANGED mainVars /\ UNCHANGED unitVars
    \/ MetadataCall /\ UNCHANGED mainVars /\ UNCHANGED unitVars
    \/ MetadataCallFails /\ UNCHANGED mainVars /\ UNCHANGED unitVars

SpecTool == ToolInit /\ [][ToolNext]_vars

\* C8: when the scope of lines 106-114 has been left, by return or by an error,
\* the PATH has the value it had on entry and no temporary directory is left.
C8_ScopeRestoresPath ==
    tool.pc \in {"raised", "returned"} =>
        /\ tool.PATH = tool.path0
        /\ tool.tmpdirs = {}

=============================================================================
